---- MODULE Spec2Model ----
(***************************************************************************)
(* Model of packages/cli/src/generators/drizzle.ts: the Drizzle schema     *)
(* generator of the better-auth CLI.                                       *)
(*                                                                         *)
(* Text is modelled as a sequence of tokens (strings).  Concatenating two  *)
(* texts is \o, the empty string is <<>>.  Identifiers that the code        *)
(* processes character by character (convertToSnakeCase) are sequences of  *)
(* one-character strings; Str joins them into one token.                    *)
(***************************************************************************)
EXTENDS Integers, Sequences, FiniteSets, TLC

VARIABLES
    provider,      \* adapter.options.provider, or undefined
    camelCase,     \* adapter.options.camelCase
    usePlural,     \* adapter.options.usePlural
    useNumberId,   \* options.advanced.database.useNumberId
    file,          \* the target path argument, or undefined
    tables,        \* getAuthTables(options): the tables in insertion order
    fsExists,      \* the file system: does the target path exist right now
    pc,            \* position inside generateDrizzleSchema
    filePath,      \* const filePath
    fileExist,     \* const fileExist
    code,          \* let code
    tableIdx,      \* position of the for-in loop over the tables
    formattedCode, \* const formattedCode
    result,        \* the value the promise resolves to
    error,         \* the error the promise rejects with
    events         \* history: the steps taken so far, with the file system seen

vars == <<provider, camelCase, usePlural, useNumberId, file, tables, fsExists,
          pc, filePath, fileExist, code, tableIdx, formattedCode, result,
          error, events>>

inputs == <<provider, camelCase, usePlural, useNumberId, file, tables>>

\* ------------------------------------------------------------------------
\* Bounds of the model
\* ------------------------------------------------------------------------
MaxTables == 2
MaxFields == 2

\* ------------------------------------------------------------------------
\* JavaScript values
\* ------------------------------------------------------------------------
undefined == "<undefined>"

DefaultPath == "./auth-schema.ts"

MissingProviderError == "Database provider type is undefined during Drizzle schema generation"

UpperCase == {"A", "B", "C", "D", "E", "F", "G", "H", "I", "J", "K", "L", "M",
              "N", "O", "P", "Q", "R", "S", "T", "U", "V", "W", "X", "Y", "Z"}

toLowerCase(letter) ==
    CASE letter = "A" -> "a" [] letter = "B" -> "b" [] letter = "C" -> "c"
      [] letter = "D" -> "d" [] letter = "E" -> "e" [] letter = "F" -> "f"
      [] letter = "G" -> "g" [] letter = "H" -> "h" [] letter = "I" -> "i"
      [] letter = "J" -> "j" [] letter = "K" -> "k" [] letter = "L" -> "l"
      [] letter = "M" -> "m" [] letter = "N" -> "n" [] letter = "O" -> "o"
      [] letter = "P" -> "p" [] letter = "Q" -> "q" [] letter = "R" -> "r"
      [] letter = "S" -> "s" [] letter = "T" -> "t" [] letter = "U" -> "u"
      [] letter = "V" -> "v" [] letter = "W" -> "w" [] letter = "X" -> "x"
      [] letter = "Y" -> "y" [] letter = "Z" -> "z" [] OTHER -> letter

\* A string held as its characters, joined into one token.
RECURSIVE Str(_)
Str(chars) == IF chars = <<>> THEN "" ELSE Head(chars) \o Str(Tail(chars))

\* Truthiness of a defaultValue.  A value is a record [kind, v] whose kind is
\* undefined, function (v is its source text), string, number or boolean.
Truthy(value) ==
    CASE value.kind = "undefined" -> FALSE
      [] value.kind = "function"  -> TRUE
      [] value.kind = "string"    -> value.v # ""
      [] value.kind = "number"    -> value.v # 0
      [] value.kind = "boolean"   -> value.v

\* The text a template literal gives for a value.
ToText(value) ==
    CASE value.kind = "function" -> value.v
      [] value.kind = "string"   -> value.v
      [] value.kind = "number"   -> IF value.v = 0 THEN "0" ELSE "1"
      [] value.kind = "boolean"  -> IF value.v THEN "true" ELSE "false"
      [] OTHER                   -> "undefined"

\* ------------------------------------------------------------------------
\* convertToSnakeCase
\* ------------------------------------------------------------------------
RECURSIVE replaceUpper(_)
replaceUpper(chars) ==
    IF chars = <<>> THEN <<>>
    ELSE (IF Head(chars) \in UpperCase
             THEN <<"_", toLowerCase(Head(chars))>>
             ELSE <<Head(chars)>>) \o replaceUpper(Tail(chars))

convertToSnakeCase(str, camel) ==
    IF camel THEN str ELSE replaceUpper(str)

\* ------------------------------------------------------------------------
\* getModelName
\* ------------------------------------------------------------------------
getModelName(modelName, plural) ==
    IF plural THEN modelName \o <<"s">> ELSE modelName

\* ------------------------------------------------------------------------
\* getType: the base column fragment of a field
\* ------------------------------------------------------------------------
idField == <<"i", "d">>

referencesId(field) ==
    field.references.defined /\ field.references.field = idField

\* The rows of typeMap, one per field type; each gives the fragment of every
\* database type.
\* Fault variant of stringColumn: on mysql the references test comes before
\* the unique test.
stringColumn_referencesFirst(name, field) ==
    [sqlite |-> <<"text", "('", name, "')">>,
     pg     |-> <<"text", "('", name, "')">>,
     mysql  |-> IF field.references.defined
                   THEN <<"varchar", "('", name, "', { length: 36 })">>
                   ELSE IF field.unique
                           THEN <<"varchar", "('", name, "', { length: 255 })">>
                           ELSE <<"text", "('", name, "')">>]

stringColumn(name, field) ==
    [sqlite |-> <<"text", "('", name, "')">>,
     pg     |-> <<"text", "('", name, "')">>,
     mysql  |-> IF field.unique
                   THEN <<"varchar", "('", name, "', { length: 255 })">>
                   ELSE IF field.references.defined
                           THEN <<"varchar", "('", name, "', { length: 36 })">>
                           ELSE <<"text", "('", name, "')">>]

booleanColumn(name) ==
    [sqlite |-> <<"integer", "('", name, "', { mode: 'boolean' })">>,
     pg     |-> <<"boolean", "('", name, "')">>,
     mysql  |-> <<"boolean", "('", name, "')">>]

numberColumn(name, field) ==
    [sqlite |-> <<"integer", "('", name, "')">>,
     pg     |-> IF field.bigint
                   THEN <<"bigint", "('", name, "', { mode: 'number' })">>
                   ELSE <<"integer", "('", name, "')">>,
     mysql  |-> IF field.bigint
                   THEN <<"bigint", "('", name, "', { mode: 'number' })">>
                   ELSE <<"int", "('", name, "')">>]

dateColumn(name) ==
    [sqlite |-> <<"integer", "('", name, "', { mode: 'timestamp' })">>,
     pg     |-> <<"timestamp", "('", name, "')">>,
     mysql  |-> <<"timestamp", "('", name, "')">>]

\* Fault variant of numberArrayColumn: mysql ignores the bigint flag.
numberArrayColumn_mysqlNoBigint(name, field) ==
    [sqlite |-> <<"integer", "('", name, "')", ".array()">>,
     pg     |-> IF field.bigint
                   THEN <<"bigint", "('", name, "', { mode: 'number' })", ".array()">>
                   ELSE <<"integer", "('", name, "')", ".array()">>,
     mysql  |-> <<"int", "('", name, "')", ".array()">>]

numberArrayColumn(name, field) ==
    [sqlite |-> <<"integer", "('", name, "')", ".array()">>,
     pg     |-> IF field.bigint
                   THEN <<"bigint", "('", name, "', { mode: 'number' })", ".array()">>
                   ELSE <<"integer", "('", name, "')", ".array()">>,
     mysql  |-> IF field.bigint
                   THEN <<"bigint", "('", name, "', { mode: 'number' })", ".array()">>
                   ELSE <<"int", "('", name, "')", ".array()">>]

stringArrayColumn(name) ==
    [sqlite |-> <<"text", "('", name, "')", ".array()">>,
     pg     |-> <<"text", "('", name, "')", ".array()">>,
     mysql  |-> <<"text", "('", name, "')", ".array()">>]

typeMap(name, field) ==
       ("string"   :> stringColumn(name, field))
    @@ ("boolean"  :> booleanColumn(name))
    @@ ("number"   :> numberColumn(name, field))
    @@ ("date"     :> dateColumn(name))
    @@ ("number[]" :> numberArrayColumn(name, field))
    @@ ("string[]" :> stringArrayColumn(name))

\* Fault variant of getType: the id-reference branch is taken by string fields
\* only.
getType_overrideStringOnly(fieldKey, field, databaseType, camel, numberId) ==
    IF databaseType = undefined THEN <<"throw">>
    ELSE LET name == Str(convertToSnakeCase(fieldKey, camel)) IN
         IF referencesId(field) /\ field.type = "string"
         THEN IF numberId
              THEN IF databaseType = "pg" THEN <<"integer", "('", name, "')">>
                   ELSE IF databaseType = "mysql" THEN <<"int", "('", name, "')">>
                   ELSE <<"integer", "('", name, "')">>
              ELSE IF field.references.field # <<>> /\ databaseType = "mysql"
                   THEN <<"varchar", "('", name, "', { length: 36 })">>
                   ELSE <<"text", "('", name, "')">>
         ELSE typeMap(name, field)[field.type][databaseType]

\* The result is <<"throw">> when the guard of line 44 fires.
getType(fieldKey, field, databaseType, camel, numberId) ==
    IF databaseType = undefined THEN <<"throw">>
    ELSE LET name == Str(convertToSnakeCase(fieldKey, camel)) IN
         IF referencesId(field)
         THEN IF numberId
              THEN IF databaseType = "pg" THEN <<"integer", "('", name, "')">>
                   ELSE IF databaseType = "mysql" THEN <<"int", "('", name, "')">>
                   ELSE <<"integer", "('", name, "')">>
              ELSE IF field.references.field # <<>> /\ databaseType = "mysql"
                   THEN <<"varchar", "('", name, "', { length: 36 })">>
                   ELSE <<"text", "('", name, "')">>
         ELSE typeMap(name, field)[field.type][databaseType]

\* ------------------------------------------------------------------------
\* The id column of a table
\* ------------------------------------------------------------------------
\* Fault variant of primaryKeyColumn: pg takes the mysql branch.
primaryKeyColumn_pgAsMysql(databaseType, numberId) ==
    IF numberId
    THEN IF databaseType = "pg"
         THEN <<"serial", "(\"id\")", ".primaryKey()">>
         ELSE <<"int", "(\"id\")", ".autoincrement", ".primaryKey()">>
    ELSE IF databaseType \in {"mysql", "pg"}
         THEN <<"varchar", "('", "id", "', { length: 36 })", ".primaryKey()">>
         ELSE <<"text", "('", "id", "')", ".primaryKey()">>

primaryKeyColumn(databaseType, numberId) ==
    IF numberId
    THEN IF databaseType = "pg"
         THEN <<"serial", "(\"id\")", ".primaryKey()">>
         ELSE <<"int", "(\"id\")", ".autoincrement", ".primaryKey()">>
    ELSE IF databaseType = "mysql"
         THEN <<"varchar", "('", "id", "', { length: 36 })", ".primaryKey()">>
         ELSE IF databaseType = "pg"
              THEN <<"text", "('", "id", "')", ".primaryKey()">>
              ELSE <<"text", "('", "id", "')", ".primaryKey()">>

\* ------------------------------------------------------------------------
\* One field column: base type, default, notNull, unique, references
\* ------------------------------------------------------------------------
defaultModifier(attr) ==
    IF Truthy(attr.defaultValue)
    THEN IF attr.defaultValue.kind = "function"
         THEN <<".$defaultFn(", ToText(attr.defaultValue), ")">>
         ELSE IF attr.defaultValue.kind = "string"
              THEN <<".default(\"", ToText(attr.defaultValue), "\")">>
              ELSE <<".default(", ToText(attr.defaultValue), ")">>
    ELSE <<>>

referencesModifier(attr, plural) ==
    IF attr.references.defined
    THEN <<".references(()=> ",
           Str(getModelName(attr.references.model, plural)),
           ".",
           Str(attr.references.field),
           ", { onDelete: '",
           IF attr.references.onDelete \notin {undefined, ""}
              THEN attr.references.onDelete ELSE "cascade",
           "' })">>
    ELSE <<>>

\* Fault variant of fieldColumn: .unique() is written before .notNull().
fieldColumn_uniqueFirst(fieldKey, attr, databaseType, camel, plural, numberId) ==
    <<Str(fieldKey), ": ">>
       \o getType(fieldKey, attr, databaseType, camel, numberId)
       \o defaultModifier(attr)
       \o (IF attr.unique THEN <<".unique()">> ELSE <<>>)
       \o (IF attr.required THEN <<".notNull()">> ELSE <<>>)
       \o referencesModifier(attr, plural)

fieldColumn(fieldKey, attr, databaseType, camel, plural, numberId) ==
    <<Str(fieldKey), ": ">>
       \o getType(fieldKey, attr, databaseType, camel, numberId)
       \o defaultModifier(attr)
       \o (IF attr.required THEN <<".notNull()">> ELSE <<>>)
       \o (IF attr.unique THEN <<".unique()">> ELSE <<>>)
       \o referencesModifier(attr, plural)

\* Array.prototype.join over texts
RECURSIVE join(_, _)
join(texts, separator) ==
    IF texts = <<>> THEN <<>>
    ELSE IF Len(texts) = 1 THEN Head(texts)
    ELSE Head(texts) \o separator \o join(Tail(texts), separator)

\* ------------------------------------------------------------------------
\* One table declaration
\* ------------------------------------------------------------------------
tableSchema(table, databaseType, camel, plural, numberId) ==
    LET modelName == getModelName(table.modelName, plural)
        fields    == table.fields
        columns   == [i \in 1..Len(fields) |->
                         fieldColumn(fields[i].key, fields[i].attr,
                                     databaseType, camel, plural, numberId)]
    IN  <<"export const ", Str(modelName), " = ", databaseType \o "Table",
          "(\"", Str(convertToSnakeCase(modelName, camel)), "\", {", "\n",
          "id: ">>
           \o primaryKeyColumn(databaseType, numberId)
           \o <<",", "\n">>
           \o join(columns, <<",", "\n ">>)
           \o <<"\n", "});">>

\* ------------------------------------------------------------------------
\* generateImport
\* ------------------------------------------------------------------------
Whitespace == {" ", "\n", "\n "}

RECURSIVE trimStart(_)
trimStart(text) ==
    IF text # <<>> /\ Head(text) \in Whitespace THEN trimStart(Tail(text))
    ELSE text

RECURSIVE trimEnd(_)
trimEnd(text) ==
    IF text # <<>> /\ text[Len(text)] \in Whitespace
    THEN trimEnd(SubSeq(text, 1, Len(text) - 1))
    ELSE text

trim(text) == trimEnd(trimStart(text))

hasBigintField(schema) ==
    \E t \in 1..Len(schema) :
        \E f \in 1..Len(schema[t].fields) : schema[t].fields[f].attr.bigint

\* Fault variant of importEntries: bigint is pushed for sqlite too.
importEntries_bigintOnSqlite(databaseType, hasBigint, numberId) ==
    << <<databaseType \o "Table">>,
       IF databaseType = "mysql" THEN <<"varchar", ", ", "text">>
       ELSE IF databaseType = "pg" THEN <<"text">> ELSE <<"text">>,
       IF hasBigint THEN <<"bigint">> ELSE <<>>,
       IF databaseType # "sqlite"
          THEN <<"timestamp", ", ", "boolean">> ELSE <<>>,
       IF databaseType = "mysql" THEN <<"int">> ELSE <<"integer">>,
       IF numberId
          THEN (IF databaseType = "pg" THEN <<"serial">> ELSE <<>>)
          ELSE <<>> >>

\* The entries pushed onto the imports array, in order.
importEntries(databaseType, hasBigint, numberId) ==
    << <<databaseType \o "Table">>,
       IF databaseType = "mysql" THEN <<"varchar", ", ", "text">>
       ELSE IF databaseType = "pg" THEN <<"text">> ELSE <<"text">>,
       IF hasBigint
          THEN (IF databaseType # "sqlite" THEN <<"bigint">> ELSE <<>>)
          ELSE <<>>,
       IF databaseType # "sqlite"
          THEN <<"timestamp", ", ", "boolean">> ELSE <<>>,
       IF databaseType = "mysql" THEN <<"int">> ELSE <<"integer">>,
       IF numberId
          THEN (IF databaseType = "pg" THEN <<"serial">> ELSE <<>>)
          ELSE <<>> >>

generateImport(databaseType, schema, numberId) ==
    LET imports == importEntries(databaseType, hasBigintField(schema), numberId)
        trimmed == [i \in 1..Len(imports) |-> trim(imports[i])]
        kept    == SelectSeq(trimmed, LAMBDA x : x # <<>>)
    IN  <<"import { ">>
           \o join(kept, <<", ">>)
           \o <<" } from ", "\"drizzle-orm/" \o databaseType \o "-core\"", ";", "\n">>

\* ------------------------------------------------------------------------
\* prettier.format: an external formatter.  It changes layout only; here it
\* brings the text into the layout that has no whitespace tokens.
\* ------------------------------------------------------------------------
format(text) == SelectSeq(text, LAMBDA t : t \notin Whitespace)

\* ------------------------------------------------------------------------
\* Inputs
\* ------------------------------------------------------------------------
Providers == {"sqlite", "pg", "mysql"}

FieldTypes == {"string", "number", "boolean", "date", "string[]", "number[]"}

NoDefault == [kind |-> "undefined", v |-> ""]

DefaultValues ==
    { NoDefault,
      [kind |-> "function", v |-> "() => new Date()"],
      [kind |-> "string", v |-> "member"],
      [kind |-> "string", v |-> ""],
      [kind |-> "number", v |-> 1],
      [kind |-> "number", v |-> 0],
      [kind |-> "boolean", v |-> TRUE],
      [kind |-> "boolean", v |-> FALSE] }

userModel == <<"u", "s", "e", "r">>
emailField == <<"e", "m", "a", "i", "l">>

NoReferences ==
    [defined |-> FALSE, model |-> <<>>, field |-> <<>>, onDelete |-> undefined]

Ref(model, field, onDelete) ==
    [defined |-> TRUE, model |-> model, field |-> field, onDelete |-> onDelete]

ReferenceValues ==
    { NoReferences,
      Ref(userModel, idField, undefined),
      Ref(userModel, idField, "set null"),
      Ref(userModel, emailField, undefined) }

FieldAttributes ==
    [type : FieldTypes, required : BOOLEAN, unique : BOOLEAN, bigint : BOOLEAN,
     defaultValue : DefaultValues, references : ReferenceValues]

Attr(type, required, unique, bigint, defaultValue, references) ==
    [type |-> type, required |-> required, unique |-> unique,
     bigint |-> bigint, defaultValue |-> defaultValue,
     references |-> references]

Field(key, attr) == [key |-> key, attr |-> attr]

userIdKey == <<"u", "s", "e", "r", "I", "d">>

\* Schemas of one table with one field, over every field attribute.
SingleFieldSchemas ==
    { << [modelName |-> <<"s", "e", "s", "s", "i", "o", "n">>,
          fields |-> <<Field(userIdKey, a)>>] >> : a \in FieldAttributes }

\* Tables as getAuthTables gives them, in insertion order.
TableCatalog ==
    << [modelName |-> userModel,
        fields |->
          << Field(<<"n", "a", "m", "e">>,
                   Attr("string", TRUE, FALSE, FALSE, NoDefault, NoReferences)),
             Field(<<"e", "m", "a", "i", "l", "V", "e", "r", "i", "f", "i", "e", "d">>,
                   Attr("boolean", TRUE, FALSE, FALSE,
                        [kind |-> "boolean", v |-> FALSE], NoReferences)),
             Field(emailField,
                   Attr("string", TRUE, TRUE, FALSE, NoDefault, NoReferences)) >>],
       [modelName |-> <<"s", "e", "s", "s", "i", "o", "n">>,
        fields |->
          << Field(userIdKey,
                   Attr("string", TRUE, FALSE, FALSE, NoDefault,
                        Ref(userModel, idField, "cascade"))),
             Field(<<"m", "a", "x", "A", "g", "e">>,
                   Attr("number", FALSE, FALSE, TRUE, NoDefault, NoReferences)),
             Field(<<"e", "x", "p", "i", "r", "e", "s", "A", "t">>,
                   Attr("date", TRUE, FALSE, FALSE, NoDefault, NoReferences)) >>],
       [modelName |-> <<"a", "c", "c", "o", "u", "n", "t">>,
        fields |->
          << Field(<<"s", "c", "o", "p", "e", "s">>,
                   Attr("string[]", FALSE, FALSE, FALSE, NoDefault, NoReferences)),
             Field(userIdKey,
                   Attr("number", TRUE, FALSE, FALSE, NoDefault,
                        Ref(userModel, idField, undefined))),
             Field(<<"c", "r", "e", "a", "t", "e", "d", "A", "t">>,
                   Attr("date", TRUE, FALSE, FALSE,
                        [kind |-> "function", v |-> "() => new Date()"],
                        NoReferences)) >>] >>

Min(a, b) == IF a < b THEN a ELSE b

CatalogSchema(nTables, nFields) ==
    [t \in 1..Min(nTables, Len(TableCatalog)) |->
        [modelName |-> TableCatalog[t].modelName,
         fields |-> SubSeq(TableCatalog[t].fields, 1,
                           Min(nFields, Len(TableCatalog[t].fields)))]]

CatalogSchemas ==
    { CatalogSchema(nTables, nFields) :
        nTables \in 0..MaxTables, nFields \in 0..MaxFields }

CustomPath == "./src/db/schema.ts"

\* ------------------------------------------------------------------------
\* generateDrizzleSchema as a state machine
\* ------------------------------------------------------------------------
Event(step) == [step |-> step, exists |-> fsExists]

Init ==
    /\ \/ /\ provider \in Providers \cup {undefined}
          /\ file \in {undefined, CustomPath}
          /\ tables \in CatalogSchemas
       \/ /\ provider \in Providers
          /\ file = undefined
          /\ tables \in SingleFieldSchemas
    /\ camelCase \in BOOLEAN
    /\ usePlural \in BOOLEAN
    /\ useNumberId \in BOOLEAN
    /\ fsExists \in BOOLEAN
    /\ pc = "start"
    /\ filePath = undefined
    /\ fileExist = FALSE
    /\ code = <<>>
    /\ tableIdx = 0
    /\ formattedCode = <<>>
    /\ result = <<>>
    /\ error = <<>>
    /\ events = <<>>

\* Fault variant of Enter: the provider guard is missing.
Enter_noGuard ==
    /\ pc = "start"
    /\ filePath' = IF file \notin {undefined, ""} THEN file ELSE DefaultPath
    /\ pc' = "probe"
    /\ events' = Append(events, Event("validated"))
    /\ UNCHANGED <<inputs, fsExists, fileExist, code, tableIdx, formattedCode,
                   result, error>>

\* Lines 23-32: the tables, the file path and the provider guard.
Enter ==
    /\ pc = "start"
    /\ filePath' = IF file \notin {undefined, ""} THEN file ELSE DefaultPath
    /\ IF provider \in {undefined, ""}
       THEN /\ error' = <<MissingProviderError>>
            /\ pc' = "rejected"
            /\ events' = Append(events, Event("throw"))
       ELSE /\ error' = error
            /\ pc' = "probe"
            /\ events' = Append(events, Event("validated"))
    /\ UNCHANGED <<inputs, fsExists, fileExist, code, tableIdx, formattedCode, result>>

\* Line 33: existsSync(filePath).
ProbeFile ==
    /\ pc = "probe"
    /\ fileExist' = fsExists
    /\ pc' = "import"
    /\ events' = Append(events, Event("probe"))
    /\ UNCHANGED <<inputs, fsExists, filePath, code, tableIdx, formattedCode, result, error>>

\* Line 35: the import header.
BuildImport ==
    /\ pc = "import"
    /\ code' = generateImport(provider, tables, useNumberId)
    /\ tableIdx' = 1
    /\ pc' = "tables"
    /\ events' = Append(events, Event("import"))
    /\ UNCHANGED <<inputs, fsExists, filePath, fileExist, formattedCode, result, error>>

\* Lines 37-176: one iteration of the loop over the tables.
EmitTable ==
    /\ pc = "tables"
    /\ tableIdx <= Len(tables)
    /\ LET table == tables[tableIdx]
           threw == \E f \in 1..Len(table.fields) :
                       getType(table.fields[f].key, table.fields[f].attr,
                               provider, camelCase, useNumberId) = <<"throw">>
       IN  IF threw
           THEN /\ error' = <<MissingProviderError>>
                /\ pc' = "rejected"
                /\ events' = Append(events, Event("throw"))
                /\ UNCHANGED <<code, tableIdx>>
           ELSE /\ code' = code \o <<"\n">>
                              \o tableSchema(table, provider, camelCase,
                                             usePlural, useNumberId)
                              \o <<"\n">>
                /\ tableIdx' = tableIdx + 1
                /\ events' = Append(events, Event("table"))
                /\ UNCHANGED <<pc, error>>
    /\ UNCHANGED <<inputs, fsExists, filePath, fileExist, formattedCode, result>>

\* Line 177: prettier.format is called and the function suspends.
CallFormat ==
    /\ pc = "tables"
    /\ tableIdx > Len(tables)
    /\ pc' = "awaiting"
    /\ events' = Append(events, Event("format"))
    /\ UNCHANGED <<inputs, fsExists, filePath, fileExist, code, tableIdx,
                   formattedCode, result, error>>

\* Lines 177-179: the formatter's promise resolves.
FormatResolves ==
    /\ pc = "awaiting"
    /\ formattedCode' = format(code)
    /\ pc' = "return"
    /\ events' = Append(events, Event("formatted"))
    /\ UNCHANGED <<inputs, fsExists, filePath, fileExist, code, tableIdx, result, error>>

\* Fault variant of Return: the file system is probed again for the result.
Return_probeAgain ==
    /\ pc = "return"
    /\ result' = << [code |-> formattedCode, fileName |-> filePath,
                     overwrite |-> fsExists] >>
    /\ pc' = "resolved"
    /\ events' = Append(events, Event("return"))
    /\ UNCHANGED <<inputs, fsExists, filePath, fileExist, code, tableIdx,
                   formattedCode, error>>

\* Lines 180-184: the result.
Return ==
    /\ pc = "return"
    /\ result' = << [code |-> formattedCode, fileName |-> filePath,
                     overwrite |-> fileExist] >>
    /\ pc' = "resolved"
    /\ events' = Append(events, Event("return"))
    /\ UNCHANGED <<inputs, fsExists, filePath, fileExist, code, tableIdx,
                   formattedCode, error>>

\* The file system belongs to the environment.  The code runs without
\* yielding up to the await of line 177, so a change before the probe is an
\* initial state, and a change after the probe has the effect of a change
\* during the await: another process creates or removes the target file
\* while the formatter runs.
FileCreated ==
    /\ pc = "awaiting"
    /\ ~fsExists
    /\ fsExists' = TRUE
    /\ UNCHANGED <<inputs, pc, filePath, fileExist, code, tableIdx,
                   formattedCode, result, error, events>>

FileRemoved ==
    /\ pc = "awaiting"
    /\ fsExists
    /\ fsExists' = FALSE
    /\ UNCHANGED <<inputs, pc, filePath, fileExist, code, tableIdx,
                   formattedCode, result, error, events>>

Next ==
    \/ Enter
    \/ ProbeFile
    \/ BuildImport
    \/ EmitTable
    \/ CallFormat
    \/ FormatResolves
    \/ Return
    \/ FileCreated
    \/ FileRemoved

Spec == Init /\ [][Next]_vars

TypeOK ==
    /\ pc \in {"start", "probe", "import", "tables", "awaiting", "return",
               "resolved", "rejected"}
    /\ fileExist \in BOOLEAN
    /\ Len(result) <= 1
    /\ Len(error) <= 1

\* ------------------------------------------------------------------------
\* Reading the generated text back
\* ------------------------------------------------------------------------
Resolved == pc = "resolved"

Output == result[1].code

RECURSIVE SplitOn(_, _)
SplitOn(text, separator) ==
    LET hits == {i \in 1..Len(text) : text[i] = separator}
    IN  IF hits = {} THEN <<text>>
        ELSE LET first == CHOOSE k \in hits : \A j \in hits : k <= j
             IN  <<SubSeq(text, 1, first - 1)>>
                    \o SplitOn(SubSeq(text, first + 1, Len(text)), separator)

Range(seq) == {seq[i] : i \in 1..Len(seq)}

\* The import statement: everything before the first declaration.
ImportStatement(text) == Head(SplitOn(text, "export const "))

\* The symbols between the braces of the import statement, in order.
ImportedSymbols(text) ==
    LET afterBrace == SplitOn(ImportStatement(text), "import { ")[2]
        inBraces   == Head(SplitOn(afterBrace, " } from "))
    IN  SelectSeq(inBraces, LAMBDA t : t # ", ")

\* The table declarations, each from the binding name to the closing "});".
Declarations(text) == Tail(SplitOn(text, "export const "))

\* The columns of a declaration: the id column first, then the field columns.
Columns(declaration) ==
    LET body  == SplitOn(declaration, "id: ")[2]
        parts == SplitOn(SelectSeq(body, LAMBDA t : t \notin {"\n", "\n ", "});"}), ",")
    IN  parts

\* The symbols a text calls: the tokens directly followed by an opening
\* parenthesis with its first argument.
CalledSymbols(text) ==
    {text[i] : i \in {k \in 1..(Len(text) - 1) :
                         text[k + 1] \in {"('", "(\"", "(\"id\")"}}}

\* The column of field f of table t in the returned code.
OutputColumn(t, f) == Columns(Declarations(Output)[t])[f + 1]

FieldPositions ==
    {<<t, f>> \in (1..Len(tables)) \X (1..(MaxFields + 1)) :
        f <= Len(tables[t].fields)}

AttrAt(pos) == tables[pos[1]].fields[pos[2]].attr

KeyAt(pos) == tables[pos[1]].fields[pos[2]].key

\* ------------------------------------------------------------------------
\* C1: the end-to-end scenario
\* ------------------------------------------------------------------------
C1_Scenario ==
    /\ tables = CatalogSchema(1, 1)
    /\ provider = "pg"
    /\ ~useNumberId /\ ~camelCase /\ ~usePlural
    /\ file = undefined
    /\ Resolved
    /\ ~events[1].exists

C1_Declaration ==
    <<"export const ", "user", " = ", "pgTable", "(\"", "user", "\", {",
      "id: ", "text", "('", "id", "')", ".primaryKey()", ",",
      "name", ": ", "text", "('", "name", "')", ".notNull()", "});">>

\* C1 as stated: for the schema with the single table user holding the single
\* required string field name, provider pg, no options, no target path and no
\* pre-existing file, the returned code imports exactly pgTable and text, its
\* only declaration is the user table with the text id primary key followed by
\* name: text('name').notNull(), fileName is ./auth-schema.ts and overwrite is
\* false.
C1_AsStated ==
    C1_Scenario =>
        /\ Output = <<"import { ", "pgTable", ", ", "text", " } from ",
                      "\"drizzle-orm/pg-core\"", ";">> \o C1_Declaration
        /\ result[1].fileName = "./auth-schema.ts"
        /\ result[1].overwrite = FALSE

\* C1 amended: in the same scenario the import statement lists pgTable, text,
\* timestamp, boolean and integer, in that order; the declaration, fileName
\* and overwrite are as the claim says.
C1_EndToEnd ==
    C1_Scenario =>
        /\ Output = <<"import { ", "pgTable", ", ", "text", ", ", "timestamp",
                      ", ", "boolean", ", ", "integer", " } from ",
                      "\"drizzle-orm/pg-core\"", ";">> \o C1_Declaration
        /\ result[1].fileName = "./auth-schema.ts"
        /\ result[1].overwrite = FALSE

C1_Witness == C1_Scenario /\ Len(Declarations(Output)) = 1

\* ------------------------------------------------------------------------
\* C2: every symbol the declarations call is imported
\* ------------------------------------------------------------------------
\* C2: for every provider, every useNumberId and every schema, each symbol the
\* emitted table declarations reference (the table constructor, the
\* constructor of the id column and of every field column) is listed in the
\* import statement.
C2_CalledSymbolsImported ==
    Resolved =>
        \A d \in Range(Declarations(Output)) :
            CalledSymbols(d) \subseteq Range(ImportedSymbols(Output))

\* ------------------------------------------------------------------------
\* C3: the import list
\* ------------------------------------------------------------------------
SomeFieldIsBigint == \E pos \in FieldPositions : AttrAt(pos).bigint

C3_Expected ==
    <<provider \o "Table">>
       \o (IF provider = "mysql" THEN <<"varchar", "text">> ELSE <<"text">>)
       \o (IF provider # "sqlite" /\ SomeFieldIsBigint THEN <<"bigint">> ELSE <<>>)
       \o (IF provider # "sqlite" THEN <<"timestamp", "boolean">> ELSE <<>>)
       \o (IF provider = "mysql" THEN <<"int">> ELSE <<"integer">>)
       \o (IF provider = "pg" /\ useNumberId THEN <<"serial">> ELSE <<>>)

\* C3: the import statement lists, in this order and dropping those whose
\* condition is false: the table constructor; varchar, text for mysql or text
\* otherwise; bigint iff the provider is not sqlite and some field of the
\* schema has bigint; timestamp, boolean iff the provider is not sqlite; int
\* for mysql or integer otherwise; serial iff the provider is pg and
\* useNumberId is set.  A sqlite import never lists bigint, timestamp, boolean
\* or serial.
C3_ImportOrder ==
    Resolved =>
        /\ ImportedSymbols(Output) = C3_Expected
        /\ provider = "sqlite" =>
              Range(ImportedSymbols(Output))
                 \cap {"bigint", "timestamp", "boolean", "serial"} = {}

C3_Witness ==
    /\ Resolved
    /\ provider = "mysql"
    /\ Len(tables) = 2
    /\ \A f \in 1..Len(tables[1].fields) : ~tables[1].fields[f].attr.bigint
    /\ SomeFieldIsBigint
    /\ "bigint" \in Range(ImportedSymbols(Output))

\* ------------------------------------------------------------------------
\* Reading one column back
\* ------------------------------------------------------------------------
DefaultStarts == {".$defaultFn(", ".default(\"", ".default("}

ConstraintTokens == {".notNull()", ".unique()", ".references(()=> "}

\* The base type fragment of a column: what follows "<key>: " up to the first
\* default or constraint modifier.
BaseFragment(column) ==
    LET starts == {i \in 3..Len(column) :
                      column[i] \in DefaultStarts \cup ConstraintTokens}
        last   == IF starts = {} THEN Len(column)
                  ELSE (CHOOSE k \in starts : \A j \in starts : k <= j) - 1
    IN  SubSeq(column, 3, last)

ColumnName(pos) == Str(convertToSnakeCase(KeyAt(pos), camelCase))

IsArrayType(type) == type \in {"string[]", "number[]"}

ScalarOf(type) == IF type = "string[]" THEN "string" ELSE "number"

ReferencesIdAt(pos) ==
    AttrAt(pos).references.defined /\ AttrAt(pos).references.field = <<"i", "d">>

\* ------------------------------------------------------------------------
\* C4: array types
\* ------------------------------------------------------------------------
ScalarFragmentWithArray(pos) ==
    getType(KeyAt(pos), [AttrAt(pos) EXCEPT !.type = ScalarOf(AttrAt(pos).type)],
            provider, camelCase, useNumberId) \o <<".array()">>

\* C4 as stated: for every string[] or number[] field that does not reference
\* an id field, on every provider and for every combination of unique, bigint
\* and references, the fragment is the fragment of the scalar type followed by
\* .array().
C4_AsStated ==
    Resolved =>
        \A pos \in FieldPositions :
            (IsArrayType(AttrAt(pos).type) /\ ~ReferencesIdAt(pos)) =>
                BaseFragment(OutputColumn(pos[1], pos[2]))
                   = ScalarFragmentWithArray(pos)

\* C4 amended: the fragment of a number[] field is the fragment of number
\* followed by .array() on every provider; the fragment of a string[] field is
\* text(name).array() on every provider, which is the fragment of string
\* followed by .array() on sqlite and pg, and on mysql only when the field is
\* neither unique nor has references.
C4_ArrayFragment ==
    Resolved =>
        \A pos \in FieldPositions :
            (IsArrayType(AttrAt(pos).type) /\ ~ReferencesIdAt(pos)) =>
                /\ (\/ AttrAt(pos).type = "number[]"
                    \/ provider # "mysql"
                    \/ (~AttrAt(pos).unique /\ ~AttrAt(pos).references.defined))
                      => BaseFragment(OutputColumn(pos[1], pos[2]))
                            = ScalarFragmentWithArray(pos)
                /\ AttrAt(pos).type = "string[]"
                      => BaseFragment(OutputColumn(pos[1], pos[2]))
                            = <<"text", "('", ColumnName(pos), "')", ".array()">>

C4_Witness ==
    /\ Resolved
    /\ \E pos \in FieldPositions :
          /\ AttrAt(pos).type = "number[]"
          /\ AttrAt(pos).bigint
          /\ provider = "mysql"
          /\ ~ReferencesIdAt(pos)
          /\ BaseFragment(OutputColumn(pos[1], pos[2]))
                = <<"bigint", "('", ColumnName(pos), "', { mode: 'number' })", ".array()">>

\* ------------------------------------------------------------------------
\* C5: default values
\* ------------------------------------------------------------------------
DefaultPositions(column) == {i \in 1..Len(column) : column[i] \in DefaultStarts}

\* C5: a field whose default value is present (false, 0 and the empty string
\* included) carries exactly one default modifier directly after the base
\* fragment: .$defaultFn(f) for a function, .default("v") for a string,
\* .default(v) otherwise; a field without default value carries none.
C5_DefaultModifier ==
    Resolved =>
        \A pos \in FieldPositions :
            LET column == OutputColumn(pos[1], pos[2])
                value  == AttrAt(pos).defaultValue
                at     == 3 + Len(BaseFragment(column))
            IN  IF value.kind = "undefined"
                THEN DefaultPositions(column) = {}
                ELSE /\ DefaultPositions(column) = {at}
                     /\ column[at] = (CASE value.kind = "function" -> ".$defaultFn("
                                        [] value.kind = "string" -> ".default(\""
                                        [] OTHER -> ".default(")
                     /\ column[at + 2] = (IF value.kind = "string" THEN "\")" ELSE ")")

\* ------------------------------------------------------------------------
\* C6: fields that reference an id
\* ------------------------------------------------------------------------
C6_Expected(name) ==
    IF useNumberId
    THEN IF provider = "mysql" THEN <<"int", "('", name, "')">>
         ELSE <<"integer", "('", name, "')">>
    ELSE IF provider = "mysql" THEN <<"varchar", "('", name, "', { length: 36 })">>
         ELSE <<"text", "('", name, "')">>

\* C6: the fragment of a field with references.field = "id" depends only on
\* the provider, useNumberId and the converted name: integer(name) on sqlite
\* and pg and int(name) on mysql with useNumberId, text(name) on sqlite and pg
\* and varchar(name, length 36) on mysql without; never bigint or .array().
C6_ReferenceOverride ==
    Resolved =>
        \A pos \in FieldPositions :
            ReferencesIdAt(pos) =>
                LET column == OutputColumn(pos[1], pos[2])
                IN  /\ BaseFragment(column) = C6_Expected(ColumnName(pos))
                    /\ Range(column) \cap {"bigint", ".array()"} = {}

C6_Witness ==
    /\ Resolved
    /\ provider = "pg"
    /\ useNumberId
    /\ \E pos \in FieldPositions :
          /\ ReferencesIdAt(pos)
          /\ AttrAt(pos).type = "number[]"
          /\ AttrAt(pos).bigint
          /\ AttrAt(pos).unique
          /\ BaseFragment(OutputColumn(pos[1], pos[2]))
                = <<"integer", "('", ColumnName(pos), "')">>

\* ------------------------------------------------------------------------
\* C7: the mapping table of the scalar types
\* ------------------------------------------------------------------------
C7_Expected(attr, name) ==
    CASE attr.type = "string" ->
            IF provider = "mysql" /\ attr.unique
               THEN <<"varchar", "('", name, "', { length: 255 })">>
            ELSE IF provider = "mysql" /\ attr.references.defined
               THEN <<"varchar", "('", name, "', { length: 36 })">>
            ELSE <<"text", "('", name, "')">>
      [] attr.type = "boolean" ->
            IF provider = "sqlite"
               THEN <<"integer", "('", name, "', { mode: 'boolean' })">>
               ELSE <<"boolean", "('", name, "')">>
      [] attr.type = "number" ->
            IF provider = "sqlite" THEN <<"integer", "('", name, "')">>
            ELSE IF attr.bigint
               THEN <<"bigint", "('", name, "', { mode: 'number' })">>
            ELSE IF provider = "pg" THEN <<"integer", "('", name, "')">>
            ELSE <<"int", "('", name, "')">>
      [] attr.type = "date" ->
            IF provider = "sqlite"
               THEN <<"integer", "('", name, "', { mode: 'timestamp' })">>
               ELSE <<"timestamp", "('", name, "')">>

\* C7: for every field of type string, number, boolean or date that does not
\* reference an id field, on each provider, the fragment is the one of the
\* mapping table, and the column name in it is the field key converted by
\* convertToSnakeCase with the camelCase option (userId gives user_id, or
\* userId unchanged with camelCase).
C7_ScalarMapping ==
    Resolved =>
        \A pos \in FieldPositions :
            (~IsArrayType(AttrAt(pos).type) /\ ~ReferencesIdAt(pos)) =>
                LET fragment == BaseFragment(OutputColumn(pos[1], pos[2]))
                IN  /\ fragment = C7_Expected(AttrAt(pos), ColumnName(pos))
                    /\ KeyAt(pos) = <<"u", "s", "e", "r", "I", "d">> =>
                          fragment[3] = (IF camelCase THEN "userId" ELSE "user_id")

C7_Witness ==
    /\ Resolved
    /\ provider = "mysql"
    /\ ~camelCase
    /\ \E pos \in FieldPositions :
          /\ AttrAt(pos).type = "string"
          /\ AttrAt(pos).unique
          /\ AttrAt(pos).references.defined
          /\ ~ReferencesIdAt(pos)
          /\ BaseFragment(OutputColumn(pos[1], pos[2]))
                = <<"varchar", "('", "user_id", "', { length: 255 })">>

\* ------------------------------------------------------------------------
\* C8: the constraint modifiers
\* ------------------------------------------------------------------------
C8_Expected(attr) ==
    (IF attr.required THEN <<".notNull()">> ELSE <<>>)
       \o (IF attr.unique THEN <<".unique()">> ELSE <<>>)
       \o (IF attr.references.defined
              THEN <<".references(()=> ",
                     Str(attr.references.model) \o (IF usePlural THEN "s" ELSE ""),
                     ".",
                     Str(attr.references.field),
                     ", { onDelete: '",
                     IF attr.references.onDelete = undefined
                        THEN "cascade" ELSE attr.references.onDelete,
                     "' })">>
              ELSE <<>>)

\* C8: after the base fragment and any default modifier, a column carries
\* .notNull() exactly when the field is required, then .unique() exactly when
\* it is unique, then .references(...) exactly when it has references; the
\* reference names getModelName(references.model) and references.field, with
\* onDelete as given, or 'cascade' when absent.
C8_ModifierOrder ==
    Resolved =>
        \A pos \in FieldPositions :
            LET column   == OutputColumn(pos[1], pos[2])
                expected == C8_Expected(AttrAt(pos))
                cut      == Len(column) - Len(expected)
            IN  /\ cut >= 2
                /\ SubSeq(column, cut + 1, Len(column)) = expected
                /\ Range(SubSeq(column, 1, cut)) \cap ConstraintTokens = {}

C8_Witness ==
    /\ Resolved
    /\ usePlural
    /\ \E pos \in FieldPositions :
          /\ AttrAt(pos).required
          /\ AttrAt(pos).unique
          /\ AttrAt(pos).references.defined
          /\ AttrAt(pos).references.onDelete = undefined
          /\ AttrAt(pos).defaultValue.kind = "function"
          /\ LET column == OutputColumn(pos[1], pos[2])
             IN  SubSeq(column, Len(column) - 8, Len(column))
                    = <<".notNull()", ".unique()", ".references(()=> ", "users",
                        ".", "id", ", { onDelete: '", "cascade", "' })">>

\* ------------------------------------------------------------------------
\* C9: the provider guard
\* ------------------------------------------------------------------------
Steps == [i \in 1..Len(events) |-> events[i].step]

\* C9: with an undefined provider the call fails with the missing-provider
\* error before any generation work: no existence probe, no import header, no
\* table text, no formatter call, no result.  With provider sqlite, pg or
\* mysql the error is never raised, neither at entry nor inside getType.
C9_ProviderGuard ==
    /\ (provider = undefined /\ pc # "start") =>
          /\ pc = "rejected"
          /\ error = <<MissingProviderError>>
          /\ Steps = <<"throw">>
          /\ code = <<>>
          /\ formattedCode = <<>>
          /\ result = <<>>
    /\ provider \in {"sqlite", "pg", "mysql"} =>
          /\ pc # "rejected"
          /\ error = <<>>
          /\ "throw" \notin Range(Steps)

C9_Witness ==
    /\ provider = undefined
    /\ pc = "rejected"
    /\ Len(tables) > 0
    /\ error # <<>>

\* ------------------------------------------------------------------------
\* C10: the order of the steps
\* ------------------------------------------------------------------------
StepAt(step) == CHOOSE i \in 1..Len(events) : events[i].step = step

\* C10 as stated: in a successful call the provider is validated, the import
\* header built, the tables emitted, the formatter called and returned, and
\* only then the target path probed; overwrite reports whether the file
\* exists after the formatter has returned.
C10_AsStated ==
    Resolved =>
        /\ StepAt("formatted") < StepAt("probe")
        /\ result[1].overwrite = events[StepAt("formatted")].exists

\* C10 amended: in a successful call the provider is validated, then the
\* target path is probed, then the import header is built, the tables are
\* emitted in schema order, the text is passed to the formatter and the
\* formatter returns; overwrite reports whether the file existed at the probe,
\* before the formatter was called.
C10_StepOrder ==
    Resolved =>
        /\ Steps = <<"validated", "probe", "import">>
                      \o [i \in 1..Len(tables) |-> "table"]
                      \o <<"format", "formatted", "return">>
        /\ result[1].overwrite = events[StepAt("probe")].exists
        /\ Len(Declarations(Output)) = Len(tables)
        /\ \A t \in 1..Len(tables) :
              Declarations(Output)[t][1]
                 = Str(tables[t].modelName) \o (IF usePlural THEN "s" ELSE "")

C10_Witness ==
    /\ Resolved
    /\ Len(tables) = 2
    /\ events[StepAt("probe")].exists
    /\ ~events[StepAt("formatted")].exists
    /\ result[1].overwrite

====
